---------------------------- MODULE Spec2Model ----------------------------
(***************************************************************************)
(* A model of the mDNS query client of src/client.go: the client object    *)
(* (two UDP sockets, the closed flag, the cancellation channel and the     *)
(* close lock), its two receiver tasks, the query loop with its map of     *)
(* in-progress entries, the timeout timer and the caller's output stream.  *)
(* The responder and its zone, whose code is not part of src/, are         *)
(* modelled from spec.md (sections 4.2 and 4.3).                           *)
(***************************************************************************)
EXTENDS Integers, Sequences, FiniteSets, TLC

(***************************************************************************)
(* Bounds of the model.                                                    *)
(***************************************************************************)
\* datagrams the environment may address to the client's sockets
MaxInject == 2
\* capacity of the internal message channel (32 in client.go:113, scaled down)
MsgChCap == 1
\* questions one lookup may send (the initial one and the follow-ups)
MaxSend == 4
\* capacity of the caller's output stream, as in server_test.go:28
EntriesCap == 1

(***************************************************************************)
(* Names, addresses and texts.                                             *)
(***************************************************************************)
Fam == {"udp4", "udp6"}

Service == "_foobar._tcp"
Domain == "local"
Instance == "hostname"
\* client.go:42, the query name of LookupDomain
serviceAddr == Service \o "." \o Domain \o "."
\* the fully qualified instance name of the zone
instanceAddr == Instance \o "." \o serviceAddr
\* a host name different from the instance name
HostName == "testhost."

EntryNames == {instanceAddr, HostName}
QNames == EntryNames \cup {serviceAddr}

NilIP == "nil"
IP1 == "127.0.0.1"
IP2 == "192.168.0.42"
IP6 == "::1"

\* the nil *ServiceEntry
NilInp == "nil"

(***************************************************************************)
(* DNS resource records, as the codec hands them over (dns.PTR, dns.SRV,   *)
(* dns.TXT, dns.A, dns.AAAA; "NS" stands for every other kind).            *)
(***************************************************************************)
RR(kind, hdr, target, port, ip, txt) ==
    [kind |-> kind, hdr |-> hdr, target |-> target, port |-> port, ip |-> ip, txt |-> txt]

PTR(hdr, ptr) == RR("PTR", hdr, ptr, 0, NilIP, <<>>)
SRV(hdr, target, port) == RR("SRV", hdr, target, port, NilIP, <<>>)
TXT(hdr, txt) == RR("TXT", hdr, "", 0, NilIP, txt)
A(hdr, ip) == RR("A", hdr, "", 0, ip, <<>>)
AAAA(hdr, ip) == RR("AAAA", hdr, "", 0, ip, <<>>)
NS(hdr) == RR("NS", hdr, "", 0, NilIP, <<>>)

\* a datagram: ok is whether msg.Unpack succeeds on it, answer its answer section
Msg(answer) == [ok |-> TRUE, answer |-> answer]
Malformed == [ok |-> FALSE, answer |-> <<>>]

\* strings.Join(rr.Txt, "|") of client.go:147
RECURSIVE Join(_, _)
Join(a, sep) ==
    IF a = <<>> THEN ""
    ELSE IF Len(a) = 1 THEN a[1]
    ELSE a[1] \o sep \o Join(Tail(a), sep)

(***************************************************************************)
(* ServiceEntry (client.go:14-22) and the in-progress map.  A name that is *)
(* not a key of the map is mapped to NoEntry.                              *)
(***************************************************************************)
NoEntry ==
    [present |-> FALSE, Name |-> "", Addr |-> NilIP, Port |-> 0, Info |-> "",
     hasTXT |-> FALSE, sent |-> FALSE]

NewEntry(name) == [NoEntry EXCEPT !.present = TRUE, !.Name = name]

\* complete without its test of hasTXT
complete_withoutTXT(s) == s.Addr # NilIP /\ s.Port # 0

\* ServiceEntry.complete, client.go:25-27
complete(s) == s.Addr # NilIP /\ s.Port # 0 /\ s.hasTXT

\* ensureName, client.go:224-233: the map after the call (the entry returned
\* is the one at name)
ensureName(inprogress, name) ==
    IF inprogress[name].present THEN inprogress
    ELSE [inprogress EXCEPT ![name] = NewEntry(name)]


(***************************************************************************)
(* The state.                                                              *)
(***************************************************************************)
VARIABLES
    binds,       \* the families net.ListenUDP could bind in newClient
    sock,        \* c.ipv4List, c.ipv6List: "nil", "open" or "closed"
    closed,      \* c.closed
    closedCh,    \* whether c.closedCh has been closed
    closeLock,   \* the holder of c.closeLock, or "free"
    cpc,         \* where each caller of Close() stands
    sockCloses,  \* how often Close() was called on each socket
    chCloses,    \* how often close(c.closedCh) was executed
    qpc,         \* where the caller of LookupDomain / query stands
    qerr,        \* the value returned to the caller: "none" until it returns
    initSend,    \* how the send of the initial question ended
    inprogress,  \* the map of in-progress entries of query()
    everSet,     \* per name, the fields a record has given a value so far
    timerFired,  \* whether the channel of time.After holds its value
    msgCh,       \* the internal message channel
    rpc,         \* where each receiver task stands
    rmsg,        \* the message a receiver task has unpacked and not yet handed over
    rsync,       \* whether a receiver task has seen its socket closed
    inbox,       \* the datagrams queued at each socket
    injected,    \* datagrams the environment has sent so far
    wire,        \* the questions written to the network and not yet answered
    asked,       \* per name, the questions sendQuery was called for
    entries,     \* the caller's output stream
    delivered,   \* the entries the consumer has received, in order
    sentSnap,    \* per name, the entry's fields when it was sent on the stream
    dropped,     \* the names whose send found the stream not ready
    zoneHost     \* the host name of the responder's zone

clientVars == <<binds, sock, closed, closedCh, closeLock, cpc, sockCloses, chCloses>>
queryVars == <<qpc, qerr, initSend, inprogress, everSet, timerFired>>
recvVars == <<msgCh, rpc, rmsg, rsync>>
netVars == <<inbox, injected, wire, asked>>
outVars == <<entries, delivered, sentSnap, dropped>>
vars == <<clientVars, queryVars, recvVars, netVars, outVars, zoneHost>>

\* the callers of Close(): LookupDomain's deferred call, and another task
Closers == {"defer", "other"}

EmptyMap == [n \in EntryNames |-> NoEntry]

NeverSet == [n \in EntryNames |-> [addr |-> FALSE, port |-> FALSE, txt |-> FALSE]]

InitClient ==
    /\ binds = {}
    /\ sock = [f \in Fam |-> "nil"]
    /\ closed = FALSE
    /\ closedCh = FALSE
    /\ closeLock = "free"
    /\ cpc = [c \in Closers |-> "idle"]
    /\ sockCloses = [f \in Fam |-> 0]
    /\ chCloses = 0
    /\ qpc = "new"
    /\ qerr = "none"
    /\ initSend = "none"
    /\ inprogress = EmptyMap
    /\ everSet = NeverSet
    /\ timerFired = FALSE
    /\ msgCh = <<>>
    /\ rpc = [f \in Fam |-> "idle"]
    /\ rmsg = [f \in Fam |-> Malformed]
    /\ rsync = [f \in Fam |-> FALSE]
    /\ inbox = [f \in Fam |-> <<>>]
    /\ injected = 0
    /\ wire = {}
    /\ asked = [n \in QNames |-> 0]
    /\ entries = <<>>
    /\ delivered = <<>>
    /\ sentSnap = EmptyMap
    /\ dropped = {}

Init ==
    /\ InitClient
    /\ zoneHost = HostName

(***************************************************************************)
(* newClient, client.go:67-88.  bound says which families net.ListenUDP    *)
(* could bind.  With neither, LookupDomain returns the error               *)
(* (client.go:35-38).                                                      *)
(***************************************************************************)
\* newClient failing as soon as one family does not bind
newClientFails_either(bound) == bound # Fam

newClientFails(bound) == bound = {}

NewClient(bound) ==
    /\ qpc = "new"
    /\ binds' = bound
    /\ IF newClientFails(bound)
       THEN /\ qpc' = "failed"
            /\ qerr' = "err"
            /\ UNCHANGED sock
       ELSE /\ qpc' = "created"
            /\ qerr' = qerr
            /\ sock' = [f \in Fam |-> IF f \in bound THEN "open" ELSE "nil"]
    /\ UNCHANGED <<closed, closedCh, closeLock, cpc, sockCloses, chCloses>>
    /\ UNCHANGED <<initSend, inprogress, everSet, timerFired>>
    /\ UNCHANGED <<recvVars, netVars, outVars, zoneHost>>

(***************************************************************************)
(* Close, client.go:91-108, in the steps other tasks can interleave with:  *)
(* take the lock; test and set the flag; close the cancellation channel;   *)
(* close the sockets and release the lock.                                 *)
(***************************************************************************)
\* the deferred Close of LookupDomain runs when query has returned or panicked;
\* another task may call Close once the client exists
MayClose(c) ==
    IF c = "defer" THEN qpc \in {"returned", "panicked"}
    ELSE qpc \in {"created", "select", "returned", "panicked"}

CloseLock(c) ==
    /\ cpc[c] = "idle"
    /\ MayClose(c)
    /\ closeLock = "free"
    /\ closeLock' = c
    /\ cpc' = [cpc EXCEPT ![c] = "locked"]
    /\ UNCHANGED <<binds, sock, closed, closedCh, sockCloses, chCloses>>
    /\ UNCHANGED <<queryVars, recvVars, netVars, outVars, zoneHost>>

\* Close without the early return of client.go:95-97
CloseFlag_unguarded(c) ==
    /\ cpc[c] = "locked"
    /\ closed' = TRUE
    /\ cpc' = [cpc EXCEPT ![c] = "flagged"]
    /\ UNCHANGED closeLock
    /\ UNCHANGED <<binds, sock, closedCh, sockCloses, chCloses>>
    /\ UNCHANGED <<queryVars, recvVars, netVars, outVars, zoneHost>>

\* if c.closed { return nil }; c.closed = true, client.go:95-98
CloseFlag(c) ==
    /\ cpc[c] = "locked"
    /\ IF closed
       THEN /\ cpc' = [cpc EXCEPT ![c] = "done"]
            /\ closeLock' = "free"
            /\ UNCHANGED closed
       ELSE /\ closed' = TRUE
            /\ cpc' = [cpc EXCEPT ![c] = "flagged"]
            /\ UNCHANGED closeLock
    /\ UNCHANGED <<binds, sock, closedCh, sockCloses, chCloses>>
    /\ UNCHANGED <<queryVars, recvVars, netVars, outVars, zoneHost>>

CloseCh(c) ==
    /\ cpc[c] = "flagged"
    /\ closedCh' = TRUE
    /\ chCloses' = chCloses + 1
    /\ cpc' = [cpc EXCEPT ![c] = "signalled"]
    /\ UNCHANGED <<binds, sock, closed, closeLock, sockCloses>>
    /\ UNCHANGED <<queryVars, recvVars, netVars, outVars, zoneHost>>

CloseSocks(c) ==
    /\ cpc[c] = "signalled"
    /\ sock' = [f \in Fam |-> IF sock[f] = "nil" THEN "nil" ELSE "closed"]
    /\ sockCloses' = [f \in Fam |-> IF sock[f] = "nil" THEN sockCloses[f]
                                    ELSE sockCloses[f] + 1]
    /\ closeLock' = "free"
    /\ cpc' = [cpc EXCEPT ![c] = "done"]
    /\ UNCHANGED <<binds, closed, closedCh, chCloses>>
    /\ UNCHANGED <<queryVars, recvVars, netVars, outVars, zoneHost>>

(***************************************************************************)
(* sendQuery, client.go:185-197.  out is how the send goes: "ok", "packerr"*)
(* (q.Pack fails, the only error sendQuery returns) or "writeerr" (WriteTo *)
(* fails; its error is not looked at).  A question is written once per     *)
(* socket that is not nil; only an open socket puts it on the network.     *)
(***************************************************************************)
SendOutcomes == {"ok", "packerr", "writeerr"}

sendQueryErr(out) == out = "packerr"

sendQueryWire(w, q, out) ==
    IF out = "ok"
    THEN w \cup {[fam |-> f, q |-> q] : f \in {g \in Fam : sock[g] = "open"}}
    ELSE w

Sends == asked[serviceAddr] + asked[instanceAddr] + asked[HostName]

(***************************************************************************)
(* query, client.go:111-128: start the receiver tasks, send the initial    *)
(* question, create the map and the timer.  A receiver task whose socket   *)
(* is nil returns at once (client.go:201-203).                             *)
(***************************************************************************)
\* what query returns when the initial sendQuery returns an error, client.go:120-122
initialSendFailed == "nil"

QueryStart(out) ==
    /\ qpc = "created"
    /\ rpc' = [f \in Fam |-> IF sock[f] = "nil" THEN "done" ELSE "test"]
    /\ initSend' = out
    /\ asked' = [asked EXCEPT ![serviceAddr] = @ + 1]
    /\ IF sendQueryErr(out)
       THEN /\ qpc' = "returned"
            /\ qerr' = initialSendFailed
            /\ UNCHANGED wire
       ELSE /\ qpc' = "select"
            /\ qerr' = qerr
            /\ wire' = sendQueryWire(wire, serviceAddr, out)
    /\ inprogress' = EmptyMap
    /\ everSet' = NeverSet
    /\ timerFired' = FALSE
    /\ UNCHANGED <<clientVars, msgCh, rmsg, rsync, inbox, injected, outVars, zoneHost>>

(***************************************************************************)
(* The loop of query, client.go:129-180: one received message.             *)
(***************************************************************************)
\* one answer record, client.go:134-159: st is the map and the entry inp points at
ApplyRR(st, rr) ==
    CASE rr.kind = "PTR" ->
           [map |-> ensureName(st.map, rr.target), inp |-> rr.target]
      [] rr.kind = "SRV" ->
           [map |-> [ensureName(st.map, rr.target) EXCEPT ![rr.target].Port = rr.port],
            inp |-> rr.target]
      [] rr.kind = "TXT" ->
           [map |-> [ensureName(st.map, rr.hdr) EXCEPT
                        ![rr.hdr].Info = Join(rr.txt, "|"),
                        ![rr.hdr].hasTXT = TRUE],
            inp |-> rr.hdr]
      [] rr.kind \in {"A", "AAAA"} ->
           [map |-> [ensureName(st.map, rr.hdr) EXCEPT ![rr.hdr].Addr = rr.ip],
            inp |-> rr.hdr]
      [] OTHER -> st

\* the loop over resp.Answer, client.go:132-160
RECURSIVE ApplyAnswers(_, _)
ApplyAnswers(st, answer) ==
    IF answer = <<>> THEN st
    ELSE ApplyAnswers(ApplyRR(st, Head(answer)), Tail(answer))

\* the fields of the entries that the records of one message give a value
\* (a port of 0 is the value of an absent port)
RECURSIVE SetBy(_, _)
SetBy(es, answer) ==
    IF answer = <<>> THEN es
    ELSE LET rr == Head(answer)
             es1 == CASE rr.kind = "SRV" /\ rr.port # 0 ->
                            [es EXCEPT ![rr.target].port = TRUE]
                       [] rr.kind = "TXT" -> [es EXCEPT ![rr.hdr].txt = TRUE]
                       [] rr.kind \in {"A", "AAAA"} /\ rr.ip # NilIP ->
                            [es EXCEPT ![rr.hdr].addr = TRUE]
                       [] OTHER -> es
         IN SetBy(es1, Tail(answer))

\* the test of client.go:163
shouldEmit(e) == complete(e) /\ ~e.sent

\* the entry left unmarked
markSent_forgotten(e) == e

\* client.go:164
markSent(e) == [e EXCEPT !.sent = TRUE]

\* whether the non-blocking send of client.go:165-168 can proceed
streamReady(stream) == Len(stream) < EntriesCap

\* a send that waits for the consumer instead of giving up
trySend_blocking(stream, name) == Append(stream, name)

\* the stream after the select of client.go:165-168
trySend(stream, name) ==
    IF streamReady(stream) THEN Append(stream, name) ELSE stream

\* outs: the ways a follow-up send may go
QueryRecv(outs) ==
    /\ qpc = "select"
    /\ msgCh # <<>>
    /\ msgCh' = Tail(msgCh)
    /\ everSet' = SetBy(everSet, Head(msgCh).answer)
    /\ LET st == ApplyAnswers([map |-> inprogress, inp |-> NilInp], Head(msgCh).answer)
           inp == st.inp
       IN IF inp = NilInp
          THEN \* inp.complete() on the nil pointer
               /\ qpc' = "panicked"
               /\ inprogress' = st.map
               /\ UNCHANGED <<wire, asked, outVars>>
          ELSE IF shouldEmit(st.map[inp])
          THEN /\ qpc' = qpc
               /\ inprogress' = [st.map EXCEPT ![inp] = markSent(@)]
               /\ entries' = trySend(entries, inp)
               /\ sentSnap' = IF streamReady(entries)
                              THEN [sentSnap EXCEPT ![inp] = markSent(st.map[inp])]
                              ELSE sentSnap
               /\ dropped' = IF streamReady(entries) THEN dropped ELSE dropped \cup {inp}
               /\ UNCHANGED <<wire, asked, delivered>>
          ELSE /\ qpc' = qpc
               /\ inprogress' = st.map
               /\ asked' = [asked EXCEPT ![st.map[inp].Name] = @ + 1]
               /\ \E out \in outs :
                     wire' = sendQueryWire(wire, st.map[inp].Name, out)
               /\ UNCHANGED outVars
    /\ UNCHANGED <<clientVars, qerr, initSend, timerFired>>
    /\ UNCHANGED <<rpc, rmsg, rsync, inbox, injected, zoneHost>>

\* the timer of time.After, client.go:128, puts its value on the channel
TimerFire ==
    /\ qpc = "select"
    /\ ~timerFired
    /\ timerFired' = TRUE
    /\ UNCHANGED <<clientVars, qpc, qerr, initSend, inprogress, everSet>>
    /\ UNCHANGED <<recvVars, netVars, outVars, zoneHost>>

\* case <-finish, client.go:177-178
QueryFinish ==
    /\ qpc = "select"
    /\ timerFired
    /\ qpc' = "returned"
    /\ qerr' = "nil"
    /\ UNCHANGED <<clientVars, initSend, inprogress, everSet, timerFired>>
    /\ UNCHANGED <<recvVars, netVars, outVars, zoneHost>>

(***************************************************************************)
(* recv, client.go:200-221.                                                *)
(***************************************************************************)
\* the values the unsynchronized read of c.closed (client.go:205) can give: the
\* write of Close is ordered before the read only once the task has seen its
\* socket closed
closedReads(f) == IF closed /\ ~rsync[f] THEN {TRUE, FALSE} ELSE {closed}

RecvTest(f) ==
    /\ rpc[f] = "test"
    /\ \E v \in closedReads(f) :
          rpc' = [rpc EXCEPT ![f] = IF v THEN "done" ELSE "read"]
    /\ UNCHANGED <<clientVars, queryVars, msgCh, rmsg, rsync, netVars, outVars, zoneHost>>

\* a receiver that forwards what it read without looking at the result of
\* msg.Unpack
RecvRead_unchecked(f) ==
    /\ rpc[f] = "read"
    /\ sock[f] = "open"
    /\ inbox[f] # <<>>
    /\ inbox' = [inbox EXCEPT ![f] = Tail(@)]
    /\ rmsg' = [rmsg EXCEPT ![f] = Head(inbox[f])]
    /\ rpc' = [rpc EXCEPT ![f] = "fwd"]
    /\ UNCHANGED <<clientVars, queryVars, msgCh, rsync, injected, wire, asked, outVars, zoneHost>>

\* l.Read returns a datagram; msg.Unpack, client.go:206-214
RecvRead(f) ==
    /\ rpc[f] = "read"
    /\ sock[f] = "open"
    /\ inbox[f] # <<>>
    /\ inbox' = [inbox EXCEPT ![f] = Tail(@)]
    /\ IF Head(inbox[f]).ok
       THEN /\ rmsg' = [rmsg EXCEPT ![f] = Head(inbox[f])]
            /\ rpc' = [rpc EXCEPT ![f] = "fwd"]
       ELSE /\ rpc' = [rpc EXCEPT ![f] = "test"]
            /\ UNCHANGED rmsg
    /\ UNCHANGED <<clientVars, queryVars, msgCh, rsync, injected, wire, asked, outVars, zoneHost>>

\* l.Read fails on the closed socket, client.go:206-209
RecvReadClosed(f) ==
    /\ rpc[f] = "read"
    /\ sock[f] = "closed"
    /\ rsync' = [rsync EXCEPT ![f] = TRUE]
    /\ rpc' = [rpc EXCEPT ![f] = "test"]
    /\ UNCHANGED <<clientVars, queryVars, msgCh, rmsg, netVars, outVars, zoneHost>>

\* case msgCh <- msg, client.go:216
RecvSend(f) ==
    /\ rpc[f] = "fwd"
    /\ Len(msgCh) < MsgChCap
    /\ msgCh' = Append(msgCh, rmsg[f])
    /\ rmsg' = [rmsg EXCEPT ![f] = Malformed]
    /\ rpc' = [rpc EXCEPT ![f] = "test"]
    /\ UNCHANGED <<clientVars, queryVars, rsync, netVars, outVars, zoneHost>>

\* a hand-over without the cancellation case
RecvCancel_missing(f) ==
    /\ FALSE
    /\ UNCHANGED vars

\* case <-c.closedCh, client.go:217-218
RecvCancel(f) ==
    /\ rpc[f] = "fwd"
    /\ closedCh
    /\ rmsg' = [rmsg EXCEPT ![f] = Malformed]
    /\ rpc' = [rpc EXCEPT ![f] = "done"]
    /\ UNCHANGED <<clientVars, queryVars, msgCh, rsync, netVars, outVars, zoneHost>>

(***************************************************************************)
(* The environment: datagrams addressed to the client's sockets, and the   *)
(* consumer of the output stream.                                          *)
(***************************************************************************)
Text1 == <<"Local web server">>

\* the datagrams of the concurrency scenarios: one that does not unpack, one
\* without answers, a browse answer, and a complete set of instance records
Datagrams ==
    { Malformed,
      Msg(<<>>),
      Msg(<<PTR(serviceAddr, instanceAddr)>>),
      Msg(<<SRV(instanceAddr, instanceAddr, 80), TXT(instanceAddr, Text1),
            A(instanceAddr, IP1)>>) }

\* a datagram arrives at socket f while its receiver task waits in l.Read
Arrive(f, d) ==
    /\ sock[f] = "open"
    /\ rpc[f] = "read"
    /\ inbox[f] = <<>>
    /\ inbox' = [inbox EXCEPT ![f] = Append(@, d)]
    /\ injected' = injected + 1
    /\ UNCHANGED <<clientVars, queryVars, recvVars, wire, asked, outVars, zoneHost>>

Inject(f, d) ==
    /\ injected < MaxInject
    /\ Arrive(f, d)

ConsumerRecv ==
    /\ entries # <<>>
    /\ delivered' = Append(delivered, Head(entries))
    /\ entries' = Tail(entries)
    /\ UNCHANGED <<clientVars, queryVars, recvVars, netVars, sentSnap, dropped, zoneHost>>

(***************************************************************************)
(* The specification: the client in an arbitrary environment.              *)
(***************************************************************************)
Next ==
    \/ \E bound \in SUBSET Fam : NewClient(bound)
    \/ \E c \in Closers : CloseLock(c)
    \/ \E c \in Closers : CloseFlag(c)
    \/ \E c \in Closers : CloseCh(c)
    \/ \E c \in Closers : CloseSocks(c)
    \/ \E out \in SendOutcomes : QueryStart(out)
    \/ QueryRecv(SendOutcomes)
    \/ TimerFire
    \/ QueryFinish
    \/ \E f \in Fam : RecvTest(f)
    \/ \E f \in Fam : RecvRead(f)
    \/ \E f \in Fam : RecvReadClosed(f)
    \/ \E f \in Fam : RecvSend(f)
    \/ \E f \in Fam : RecvCancel(f)
    \/ \E f \in Fam, d \in Datagrams : Inject(f, d)
    \/ ConsumerRecv

Spec == Init /\ [][Next]_vars

(***************************************************************************)
(* The same with the scheduling the Go runtime gives: every task that can  *)
(* take a step takes one, the timer fires, a select with a ready case      *)
(* proceeds, and the deferred Close of LookupDomain runs.  The             *)
(* environment, the consumer and the task that calls Close from outside    *)
(* are under no obligation.                                                *)
(***************************************************************************)
Fairness ==
    /\ WF_vars(\E out \in SendOutcomes : QueryStart(out))
    /\ WF_vars(QueryRecv(SendOutcomes))
    /\ WF_vars(TimerFire)
    /\ WF_vars(QueryFinish)
    /\ WF_vars(CloseLock("defer"))
    /\ \A c \in Closers :
          WF_vars(CloseFlag(c)) /\ WF_vars(CloseCh(c)) /\ WF_vars(CloseSocks(c))
    /\ \A f \in Fam :
          /\ WF_vars(RecvTest(f))
          /\ WF_vars(RecvRead(f))
          /\ WF_vars(RecvReadClosed(f))
          /\ WF_vars(RecvSend(f))
          /\ WF_vars(RecvCancel(f))

\* the datagrams of the termination scenarios: what a message holds beyond
\* whether it touches an entry does not matter to them
LiveDatagrams ==
    { Msg(<<>>),
      Msg(<<PTR(serviceAddr, instanceAddr)>>) }

LiveNext ==
    \/ \E bound \in SUBSET Fam : NewClient(bound)
    \/ \E c \in Closers : CloseLock(c)
    \/ \E c \in Closers : CloseFlag(c)
    \/ \E c \in Closers : CloseCh(c)
    \/ \E c \in Closers : CloseSocks(c)
    \/ \E out \in SendOutcomes : QueryStart(out)
    \/ QueryRecv(SendOutcomes)
    \/ TimerFire
    \/ QueryFinish
    \/ \E f \in Fam : RecvTest(f)
    \/ \E f \in Fam : RecvRead(f)
    \/ \E f \in Fam : RecvReadClosed(f)
    \/ \E f \in Fam : RecvSend(f)
    \/ \E f \in Fam : RecvCancel(f)
    \/ \E f \in Fam, d \in LiveDatagrams : Inject(f, d)

FairSpec == Init /\ [][LiveNext]_vars /\ Fairness

(***************************************************************************)
(* The aggregation scenario: one lookup over one socket, whose datagrams   *)
(* arrive one at a time, each after the one before has been processed.     *)
(* The order of the messages is all the query loop depends on, so every    *)
(* sequence of up to MaxQuiet datagrams is covered.                        *)
(***************************************************************************)
MaxQuiet == 4

Text2 == <<"path=/", "v=2">>

FullAnswer(n, port, ip) == <<SRV(n, n, port), TXT(n, Text1), A(n, ip)>>

AggDatagrams ==
    { Malformed,
      Msg(<<>>),
      Msg(<<NS(serviceAddr)>>),
      Msg(<<PTR(serviceAddr, instanceAddr)>>),
      Msg(<<SRV(instanceAddr, instanceAddr, 80)>>),
      Msg(<<SRV(instanceAddr, instanceAddr, 0)>>),
      Msg(<<TXT(instanceAddr, Text1)>>),
      Msg(<<TXT(instanceAddr, Text2)>>),
      Msg(<<A(instanceAddr, IP1)>>),
      Msg(<<A(instanceAddr, IP2)>>),
      Msg(<<AAAA(instanceAddr, IP6)>>),
      Msg(FullAnswer(instanceAddr, 80, IP1)),
      Msg(FullAnswer(HostName, 80, IP2)),
      Msg(FullAnswer(instanceAddr, 80, IP1) \o <<PTR(serviceAddr, HostName)>>) }

\* no message is on its way from a socket to the query loop
Quiet ==
    /\ msgCh = <<>>
    /\ \A f \in Fam : inbox[f] = <<>> /\ rpc[f] # "fwd"

InjectQuiet(f, d) ==
    /\ injected < MaxQuiet
    /\ Quiet
    /\ Arrive(f, d)

AggNext ==
    \/ NewClient({"udp4"})
    \/ QueryStart("ok")
    \/ QueryRecv(SendOutcomes)
    \/ TimerFire
    \/ QueryFinish
    \/ \E f \in Fam : RecvTest(f)
    \/ \E f \in Fam : RecvRead(f)
    \/ \E f \in Fam : RecvSend(f)
    \/ \E f \in Fam, d \in AggDatagrams : InjectQuiet(f, d)
    \/ ConsumerRecv

SpecAgg == Init /\ [][AggNext]_vars

(***************************************************************************)
(* The responder and its zone, after spec.md 4.2 and 4.3: a PTR from the   *)
(* browse name to the instance name, an SRV from the instance name to      *)
(* (host, port), a TXT for the instance name, an A for the host name.  A   *)
(* question of type ANY gets every applicable record in one message, PTR   *)
(* first, then SRV, TXT, A.                                                *)
(***************************************************************************)
ZonePort == 80

\* the host names the zone's configuration may give
ZoneHosts == {instanceAddr, HostName}

ZoneRecords(host, q) ==
    IF q = serviceAddr THEN <<PTR(serviceAddr, instanceAddr)>>
    ELSE IF q = instanceAddr
    THEN <<SRV(instanceAddr, host, ZonePort), TXT(instanceAddr, Text1), A(host, IP1)>>
    ELSE IF q = host THEN <<A(host, IP1)>>
    ELSE <<>>

\* the responder receives one question and answers it; the answer reaches
\* the socket the question was sent from
Respond(f, q) ==
    /\ [fam |-> f, q |-> q] \in wire
    /\ wire' = wire \ {[fam |-> f, q |-> q]}
    /\ IF ZoneRecords(zoneHost, q) # <<>> /\ sock[f] = "open"
       THEN inbox' = [inbox EXCEPT ![f] = Append(@, Msg(ZoneRecords(zoneHost, q)))]
       ELSE UNCHANGED inbox
    /\ UNCHANGED <<clientVars, queryVars, recvVars, injected, asked, outVars, zoneHost>>

(***************************************************************************)
(* The end-to-end scenario of TestServer_Lookup: LookupDomain against the  *)
(* responder, no datagram lost, no other sender, the output stream empty   *)
(* at the start.  The deadline lies after the exchange: the timer fires    *)
(* once nothing is on its way, or once MaxSend questions have been sent    *)
(* (the loop sends no more than MaxSend questions before the deadline).    *)
(***************************************************************************)
NetQuiet == Quiet /\ wire = {}

QueryRecvBeforeDeadline ==
    /\ Sends < MaxSend
    /\ QueryRecv({"ok"})

TimerFireLate ==
    /\ NetQuiet \/ Sends >= MaxSend
    /\ TimerFire

InitE2E ==
    /\ InitClient
    /\ zoneHost \in ZoneHosts

E2ENext ==
    \/ \E bound \in (SUBSET Fam) \ {{}} : NewClient(bound)
    \/ QueryStart("ok")
    \/ QueryRecvBeforeDeadline
    \/ TimerFireLate
    \/ QueryFinish
    \/ CloseLock("defer")
    \/ CloseFlag("defer")
    \/ CloseCh("defer")
    \/ CloseSocks("defer")
    \/ \E f \in Fam : RecvTest(f)
    \/ \E f \in Fam : RecvRead(f)
    \/ \E f \in Fam : RecvReadClosed(f)
    \/ \E f \in Fam : RecvSend(f)
    \/ \E f \in Fam : RecvCancel(f)
    \/ \E f \in Fam, q \in QNames : Respond(f, q)
    \/ ConsumerRecv

SpecE2E == InitE2E /\ [][E2ENext]_vars /\ WF_vars(E2ENext)

(***************************************************************************)
(* The properties.                                                         *)
(***************************************************************************)
Range(q) == {q[i] : i \in 1..Len(q)}

\* the names sent on the output stream so far, in order
Stream == delivered \o entries

Count(q, x) == Cardinality({i \in 1..Len(q) : q[i] = x})

\* the entry TestServer_Lookup expects, server_test.go:33-44
ExpectedEntry ==
    [present |-> TRUE, Name |-> "hostname._foobar._tcp.local.", Addr |-> IP1,
     Port |-> 80, Info |-> "Local web server", hasTXT |-> TRUE, sent |-> TRUE]

\* C1: in the end-to-end scenario, when the lookup has returned it has returned
\* no error and exactly one entry was sent on the stream, the expected one.
C1_EndToEndLookup ==
    qpc = "returned" =>
        /\ qerr = "nil"
        /\ Stream = <<instanceAddr>>
        /\ sentSnap[instanceAddr] = ExpectedEntry

\* C1, for a zone whose host name is the instance name: the records of the
\* instance all carry the name the entry is keyed by, and the lookup succeeds.
C1_WhenHostIsInstance == zoneHost = instanceAddr => C1_EndToEndLookup

\* C2: no name occurs more than once among the entries sent on the output stream.
C2_AtMostOnce == \A n \in EntryNames : Count(Stream, n) <= 1

\* C2 witness: an entry was sent, and a later record for the same name changed it
C2_Witness ==
    /\ instanceAddr \in Range(Stream)
    /\ complete(inprogress[instanceAddr])
    /\ inprogress[instanceAddr].Addr # sentSnap[instanceAddr].Addr

\* completeness as spec.md section 3 states it: address present, port not 0,
\* has-metadata true
AllKnown(e) == e.Addr # NilIP /\ e.Port # 0 /\ e.hasTXT

\* C3: every entry sent on the output stream was complete when it was sent, and
\* an entry that never became complete is not on the stream, also after the
\* lookup has returned.
C3_NoPartialResults ==
    \A n \in EntryNames :
        /\ n \in Range(Stream) => sentSnap[n].present /\ AllKnown(sentSnap[n])
        /\ ~inprogress[n].sent => n \notin Range(Stream)

\* C3 witness: the lookup has returned, one entry was sent and another one,
\* still incomplete, was not
C3_Witness ==
    /\ qpc = "returned"
    /\ \E n \in EntryNames : n \in Range(Stream)
    /\ \E n \in EntryNames :
          /\ inprogress[n].present
          /\ ~AllKnown(inprogress[n])
          /\ ~inprogress[n].sent
          /\ n \notin Range(Stream)

\* C4: an entry is complete exactly when a record has set its address, a record
\* has set its port and a record has set its metadata.
C4_CompleteIffAllSet ==
    \A n \in EntryNames :
        inprogress[n].present =>
            (complete(inprogress[n]) <=>
                everSet[n].addr /\ everSet[n].port /\ everSet[n].txt)

\* C5: once the timer has fired, the query loop takes no message from the
\* internal channel and nothing is sent on the output stream.
C5_HardDeadline ==
    [][timerFired => Len(msgCh') >= Len(msgCh) /\ Stream' = Stream]_vars

\* C6: the lookup returns an error exactly when neither family could be bound;
\* every lookup that returns with a socket bound returns no error.
C6_ErrorOnlyOnOpenFailure ==
    /\ qerr = "err" <=> (qpc = "failed" /\ binds = {})
    /\ (qpc = "returned" /\ binds # {}) => qerr = "nil"
    /\ qpc = "failed" => binds = {}

\* C6 witness: a lookup whose initial send failed and that found nothing has
\* returned no error
C6_Witness ==
    /\ qpc = "returned"
    /\ qerr = "nil"
    /\ initSend = "packerr"
    /\ Stream = <<>>

\* C7: a lookup whose initial question could not be sent returns an error.
C7_InitialSendFailureSurfaced ==
    (qpc = "returned" /\ initSend \in {"packerr", "writeerr"}) => qerr = "err"

\* the query loop takes a message in which an entry becomes complete while
\* the output stream is not ready
DropStep(n) ==
    /\ qpc = "select"
    /\ Len(msgCh') < Len(msgCh)
    /\ ~inprogress[n].sent
    /\ inprogress'[n].sent
    /\ ~streamReady(entries)

\* C8: an entry that becomes complete while the stream is not ready is marked
\* emitted and dropped, the loop is back at its select in the same step, and a
\* dropped entry is not on the stream at any later time.
C8_SendOrDrop ==
    /\ [][\A n \in EntryNames :
             DropStep(n) =>
                 /\ qpc' = "select"
                 /\ n \in dropped'
                 /\ Stream' = Stream]_vars
    /\ [](\A n \in dropped : inprogress[n].sent /\ n \notin Range(Stream))

\* C8 witness: an entry was dropped, records for it were processed afterwards
\* and the loop ran on to the timeout
C8_Witness ==
    /\ qpc = "returned"
    /\ instanceAddr \in dropped
    /\ inprogress[instanceAddr].Addr = IP2
    /\ delivered = <<HostName>>

\* C9: once the client has been closed during a lookup, query() returns.
C9_ClosedLookupReturns == (closed /\ qpc = "select") ~> (qpc = "returned")

\* C9, short of the panic of the query loop on a message that touches no
\* entry: a closed lookup returns unless it panics.
C9_ReturnsOrPanics ==
    (closed /\ qpc = "select") ~> (qpc \in {"returned", "panicked"})

\* C10: once Close() has set the flag, every receiver task that is running
\* returns, wherever it stands.
C10_ReceiversReturn ==
    \A f \in Fam : (closed /\ rpc[f] \in {"test", "read", "fwd"}) ~> (rpc[f] = "done")

\* C10 witness: Close() was called from outside during the lookup with the
\* internal channel full, and both receiver tasks have returned
C10_Witness ==
    /\ cpc["other"] = "done"
    /\ qpc = "select"
    /\ Len(msgCh) = MsgChCap
    /\ \A f \in Fam : sock[f] = "closed" /\ rpc[f] = "done"

\* whether some call of Close() has returned (client.go:91-108)
CloseCompleted == \E c \in Closers : cpc[c] = "done"

\* C11: after Close() has completed, no receiver task places a further
\* message on the internal message channel.
C11_NoForwardAfterClose ==
    [][CloseCompleted => Len(msgCh') <= Len(msgCh)]_vars

\* the state a single call of Close() leaves the client in: the flag set, the
\* cancellation channel closed once, every socket that was opened closed once
ClosedOnce ==
    /\ closed
    /\ closedCh
    /\ chCloses = 1
    /\ \A f \in Fam :
          /\ sock[f] = (IF f \in binds THEN "closed" ELSE "nil")
          /\ sockCloses[f] = (IF f \in binds THEN 1 ELSE 0)

\* C12: Close() is idempotent: whatever the number of calls and however they
\* interleave, the cancellation channel and each socket are closed at most
\* once, and from the return of the first call on the client is in the state
\* a single call leaves it in.
C12_CloseIdempotent ==
    /\ chCloses <= 1
    /\ \A f \in Fam : sockCloses[f] <= 1
    /\ CloseCompleted => ClosedOnce

\* C12 witness: two calls of Close() have returned, one from outside during
\* the lookup and the deferred one, on a client with both sockets
C12_Witness ==
    /\ \A c \in Closers : cpc[c] = "done"
    /\ binds = Fam
    /\ ClosedOnce

\* a follow-up query for entry n is sent in this step (client.go:171-175)
FollowUp(n) == asked'[n] > asked[n]

\* C13: a follow-up query is sent after processing a message only if the
\* entry it is for is still incomplete.
C13_FollowUpOnlyIfIncomplete ==
    [][\A n \in EntryNames : FollowUp(n) => ~complete(inprogress'[n])]_vars

\* C14: within one lookup, at most one follow-up query is sent per entry
\* name, whatever the sequence of received messages.
C14_OneFollowUpPerName == \A n \in EntryNames : asked[n] <= 1

\* the fields of entry e that hold a value (client.go:25-27: a nil address and
\* a port of 0 are the absent values; the metadata has its own flag)
SetFields(e) ==
    (IF e.Addr # NilIP THEN {"Addr"} ELSE {})
    \cup (IF e.Port # 0 THEN {"Port"} ELSE {})
    \cup (IF e.hasTXT THEN {"Info"} ELSE {})

\* C15: the state of an entry is monotonic: in every step a field that is
\* set stays set, a complete entry stays complete, and the emitted flag is
\* not reset.
C15_EntryMonotonic ==
    [][\A n \in EntryNames :
          /\ SetFields(inprogress[n]) \subseteq SetFields(inprogress'[n])
          /\ complete(inprogress[n]) => complete(inprogress'[n])
          /\ inprogress[n].sent => inprogress'[n].sent]_vars

\* C15, the part the code keeps: the emitted flag of an entry is never reset.
C15_SentNeverReset ==
    [][\A n \in EntryNames : inprogress[n].sent => inprogress'[n].sent]_vars

\* what the consumer holds for name n: the stream carries *ServiceEntry
\* (client.go:33, 166), the pointer to the entry of the in-progress map, so
\* the value behind it is the query loop's own entry
Received(n) == inprogress[n]

\* the fields of an entry the consumer reads
Public(e) == <<e.Name, e.Addr, e.Port, e.Info>>

\* C16: an emitted entry is an immutable snapshot: the name, address, port and
\* metadata of the value the consumer received stay what they were when the
\* entry was sent.
C16_EmittedImmutable ==
    \A n \in Range(delivered) : Public(Received(n)) = Public(sentSnap[n])

\* receiver task f reads a datagram that msg.Unpack rejects (client.go:210-214)
UnpackFails(f) ==
    /\ rpc[f] = "read"
    /\ inbox[f] # <<>>
    /\ ~Head(inbox[f]).ok
    /\ inbox'[f] = Tail(inbox[f])

\* C17: a malformed datagram is dropped by the receiver task: no malformed
\* message is ever on the internal channel, and the step that reads one
\* leaves the channel and the query loop as they are and takes the task back
\* to the top of its loop, from where it reads and forwards what comes next.
C17_MalformedDropped ==
    /\ [](\A i \in 1..Len(msgCh) : msgCh[i].ok)
    /\ [][\A f \in Fam :
             UnpackFails(f) =>
                /\ rpc'[f] = "test"
                /\ msgCh' = msgCh
                /\ UNCHANGED queryVars]_vars

\* C17 witness: of the two datagrams the only socket got, the first left no
\* trace (it was the malformed one: a message without answers would have
\* stopped the loop, any other would be in the in-progress map), and the task
\* went on to read the second, a well-formed one, which is on the internal
\* channel with the query loop ready to take it
C17_Witness ==
    /\ binds = {"udp4"}
    /\ injected = 2
    /\ qpc = "select"
    /\ inprogress = EmptyMap
    /\ inbox["udp4"] = <<>>
    /\ rpc["udp4"] \in {"test", "read"}
    /\ Len(msgCh) = 1
    /\ Head(msgCh).ok
    /\ Head(msgCh).answer # <<>>

\* C18: the query loop never fails on a received message: one that touches no
\* entry is processed without a crash.
C18_NoCrashOnUntouched == qpc # "panicked"

\* the query loop is between two messages (at its select, or returned)
BetweenMessages == qpc \in {"select", "returned"}

\* C19: every entry that becomes complete is handed to emission: at the end
\* of processing each message, no entry of the in-progress map is complete
\* and not marked emitted.
C19_CompleteIsEmitted ==
    BetweenMessages =>
       \A n \in EntryNames :
          (inprogress[n].present /\ complete(inprogress[n])) => inprogress[n].sent

\* the next step of receiver task f is the read of c.closed in its loop test
\* (client.go:205), made without holding closeLock
ReadsClosed(f) == rpc[f] = "test"

\* the next step of call c of Close() is the write c.closed = true
\* (client.go:98), made under closeLock
WritesClosed(c) == cpc[c] = "locked" /\ ~closed

\* C20: the closed flag is never read by a receiver task while Close() is
\* writing it: in no reachable state are the loop test of a receiver task and
\* the write of Close() both about to happen, with nothing to order them.
C20_NoRaceOnClosed ==
    \A f \in Fam, c \in Closers : ~(ReadsClosed(f) /\ WritesClosed(c))

=============================================================================
